---- MODULE Spec2Model ----
(***************************************************************************)
(* Model of jellyfin_suggested.py: the run orchestrator                    *)
(* (PlaylistGenerator.run), the per-user suggestion aggregation            *)
(* (PlaylistGenerator.process_user with TMDbClient.get_similar) and the    *)
(* playlist synchronizer (PlaylistGenerator.update_playlist with the       *)
(* JellyfinClient playlist calls).                                         *)
(*                                                                         *)
(* Every "await" of the program is one step of the model.  The answer of   *)
(* the remote service is chosen at that step: "ok" is the status the       *)
(* client tests for (200, or 204 for clear/append), "status" is any other  *)
(* HTTP status, "fault" is an exception raised by the HTTP session         *)
(* (connection error, timeout).  Only get_similar catches exceptions; a    *)
(* fault of any media-server call propagates out of run().                 *)
(*                                                                         *)
(* Data encodings:                                                         *)
(*   - ProviderIds.Tmdb is a string of digits on the media server; it is   *)
(*     a sequence of digits here, <<>> standing for a missing (or empty)   *)
(*     value, and int() is ParseInt.  Non-numeric strings are not          *)
(*     modelled.                                                           *)
(*   - ratings are whole numbers (min_tmdb_rating 6.0 is 6).               *)
(*   - item, entry and playlist identifiers are atoms (GUIDs on the        *)
(*     server); ','.join is Join, which interleaves "," tokens, and the    *)
(*     server takes the list apart again with Split.                       *)
(*   - the display Name of an item is only logged and is left out.         *)
(***************************************************************************)
EXTENDS Integers, Sequences, FiniteSets, TLC

(***************************************************************************)
(* Configuration (Config, environment-configurable; small values here).    *)
(***************************************************************************)
playlist_name == "Suggested For You"
max_watched_items == 2
max_similar_per_item == 2
max_playlist_items == 2
min_tmdb_rating == 6
min_tmdb_votes == 50

(***************************************************************************)
(* Bounds of the model.                                                    *)
(***************************************************************************)
MaxResults == 3     \* longest result list the provider answers with
MaxOld == 2         \* most entries of a playlist in the initial server state

VARIABLES
    server_playlists,   \* media server: the playlists, in listing order
    next_id,            \* media server: counter for fresh playlist ids
    pc,                 \* position of the run (the pending await)
    movie_library,      \* run(): index TMDB id -> library item
    series_library,
    users,              \* run(): answer of get_users
    ui,                 \* run(): index of the user being processed
    watched_movies,     \* process_user locals
    watched_series,
    ei,                 \* index of the episode in the loop of line 257
    seen_series,
    unique_series,
    watched_tmdb_ids,
    suggested_items,
    si,                 \* index of the watched item in the loops of 284/300
    similar,            \* results of get_similar still to be looked at
    sj,                 \* position in the provider's (filtered) result list
    existing_playlist,  \* update_playlist locals
    current_items,
    item_ids,
    tmdb_response,      \* the provider's last answer  (history)
    calls,              \* playlist calls issued for the current user (history)
    before_rank,        \* working list just before the sort of line 316 (history)
    before_sync,        \* server playlists when update_playlist began (history)
    faulted             \* a media-server call raised  (history)

vars == <<server_playlists, next_id, pc, movie_library, series_library, users, ui,
          watched_movies, watched_series, ei, seen_series, unique_series,
          watched_tmdb_ids, suggested_items, si, similar, sj, existing_playlist,
          current_items, item_ids, tmdb_response, calls,
          before_rank, before_sync, faulted>>

serverVars == <<server_playlists, next_id>>
runVars == <<movie_library, series_library, users, ui>>
historyVars == <<watched_movies, watched_series, ei, seen_series, unique_series,
                 watched_tmdb_ids>>
aggVars == <<suggested_items, si, similar, sj>>
syncVars == <<existing_playlist, current_items, item_ids>>

(***************************************************************************)
(* Helpers.                                                                *)
(***************************************************************************)
Min(a, b) == IF a <= b THEN a ELSE b

Range(s) == {s[i] : i \in 1..Len(s)}

\* s[:n]
Take(s, n) == SubSeq(s, 1, Min(n, Len(s)))

SeqsUpTo(S, n) == UNION {[1..k -> S] : k \in 0..n}

\* int(tmdb_id) on a string of decimal digits
RECURSIVE ParseInt(_)
ParseInt(digits) ==
    IF digits = <<>> THEN 0
    ELSE 10 * ParseInt(SubSeq(digits, 1, Len(digits) - 1)) + digits[Len(digits)]

\* ','.join(item_ids)
RECURSIVE Join(_)
Join(ids) ==
    IF ids = <<>> THEN <<>>
    ELSE IF Len(ids) = 1 THEN <<ids[1]>>
    ELSE <<ids[1], ",">> \o Join(Tail(ids))

\* the server's reading of a comma-separated list of identifiers
RECURSIVE Split(_)
Split(tokens) ==
    IF tokens = <<>> THEN <<>>
    ELSE IF tokens[1] = "," THEN Split(Tail(tokens))
    ELSE <<tokens[1]>> \o Split(Tail(tokens))

(***************************************************************************)
(* Media server: playlists.  A playlist is [Id, Owner, Name, Entries]; an  *)
(* entry is [Id, PlaylistItemId]: the item and the entry's own identifier. *)
(***************************************************************************)
EntryIdPool == <<"e1", "e2", "e3", "e4", "e5", "e6", "e7", "e8">>

\* an entry identifier the playlist does not use yet
FreshEntryId(entries) ==
    LET used == {entries[i].PlaylistItemId : i \in 1..Len(entries)}
        k == CHOOSE i \in 1..Len(EntryIdPool) :
                 /\ EntryIdPool[i] \notin used
                 /\ \A j \in 1..(i - 1) : EntryIdPool[j] \in used
    IN EntryIdPool[k]

RECURSIVE AppendEntries(_, _)
AppendEntries(entries, ids) ==
    IF ids = <<>> THEN entries
    ELSE AppendEntries(
             Append(entries, [Id |-> ids[1], PlaylistItemId |-> FreshEntryId(entries)]),
             Tail(ids))

\* GET /Items?userId=..&includeItemTypes=Playlist : the user's playlists
ServerUserPlaylists(pls, user_id) ==
    SelectSeq(pls, LAMBDA p : p.Owner = user_id)

\* POST /Playlists : a new playlist holding the listed items in order
ServerCreatePlaylist(pls, id, user_id, name, ids_param) ==
    Append(pls, [Id |-> id, Owner |-> user_id, Name |-> name,
                 Entries |-> AppendEntries(<<>>, Split(ids_param))])

\* GET /Playlists/{id}/Items
ServerPlaylistItems(pls, playlist_id) ==
    LET hit == SelectSeq(pls, LAMBDA p : p.Id = playlist_id)
    IN IF hit = <<>> THEN <<>> ELSE hit[1].Entries

\* DELETE /Playlists/{id}/Items?entryIds=.. : removes exactly those entries
ServerRemoveEntries(pls, playlist_id, entry_ids_param) ==
    LET gone == Range(Split(entry_ids_param))
    IN [i \in 1..Len(pls) |->
           IF pls[i].Id = playlist_id
           THEN [pls[i] EXCEPT !.Entries =
                    SelectSeq(@, LAMBDA e : e.PlaylistItemId \notin gone)]
           ELSE pls[i]]

\* POST /Playlists/{id}/Items?ids=.. : appends the listed items in order
ServerAddItems(pls, playlist_id, ids_param) ==
    [i \in 1..Len(pls) |->
        IF pls[i].Id = playlist_id
        THEN [pls[i] EXCEPT !.Entries = AppendEntries(@, Split(ids_param))]
        ELSE pls[i]]

(***************************************************************************)
(* JellyfinClient: what each method returns for an answer of the server.   *)
(* `kind` is "ok" or "status" here; a "fault" never reaches the return.    *)
(***************************************************************************)
EmptyIndex == [k \in {} |-> <<>>]

\* lines 112-117: items[int(tmdb_id)] = item, for the items that have one
RECURSIVE LibraryIndex(_)
LibraryIndex(items) ==
    IF items = <<>> THEN EmptyIndex
    ELSE LET rest == LibraryIndex(SubSeq(items, 1, Len(items) - 1))
             item == items[Len(items)]
         IN IF item.Tmdb # <<>>
            THEN [k \in DOMAIN rest \cup {ParseInt(item.Tmdb)} |->
                     IF k = ParseInt(item.Tmdb) THEN item ELSE rest[k]]
            ELSE rest

get_library_items(kind, listing) ==
    IF kind = "ok" THEN LibraryIndex(listing) ELSE EmptyIndex

get_users(kind, listing) ==
    IF kind = "ok" THEN listing ELSE <<>>

get_watched_items(kind, listing) ==
    IF kind = "ok" THEN listing ELSE <<>>

get_user_playlists(kind, pls, user_id) ==
    IF kind = "ok" THEN ServerUserPlaylists(pls, user_id) ELSE <<>>

\* a fetch of the entries that never finds any
get_playlist_items_none(kind, pls, playlist_id) == <<>>

get_playlist_items(kind, pls, playlist_id) ==
    IF kind = "ok" THEN ServerPlaylistItems(pls, playlist_id) ELSE <<>>

(***************************************************************************)
(* TMDbClient.get_similar.  A provider answer is [kind, results]; a result *)
(* is [id, vote_average, vote_count].                                      *)
(***************************************************************************)
Qualifies(item) ==
    item.vote_average >= min_tmdb_rating /\ item.vote_count >= min_tmdb_votes

\* the loop of lines 200-208 over an already sliced list
RECURSIVE KeepQualifying(_)
KeepQualifying(results) ==
    IF results = <<>> THEN <<>>
    ELSE LET item == results[1]
         IN IF Qualifies(item)
            THEN <<[id |-> item.id, vote_average |-> item.vote_average]>>
                     \o KeepQualifying(Tail(results))
            ELSE KeepQualifying(Tail(results))

\* get_similar with the slice taken after the filter
get_similar_filter_first(resp) ==
    IF resp.kind = "ok"
    THEN Take(KeepQualifying(resp.results), max_similar_per_item)
    ELSE <<>>

get_similar(resp) ==
    IF resp.kind = "ok"
    THEN KeepQualifying(Take(resp.results, max_similar_per_item))
    ELSE <<>>

(***************************************************************************)
(* PlaylistGenerator.process_user: the pure parts.                         *)
(* A watched movie is [Tmdb] (nothing else of it is read), a series or a   *)
(* library item is [Id, Tmdb], an episode is [SeriesId] ("" when absent).  *)
(* A candidate is [Id, Type, Score] as in the code, with two history       *)
(* fields: Tmdb, the ProviderIds.Tmdb of the library item it was taken     *)
(* from, and Origin = <<loop, position of the watched item, position in    *)
(* the similar list>>, the place where it was inserted.                    *)
(***************************************************************************)
\* the first index i in from..limit of list with a TMDB id, 0 when none
NextWithTmdb(list, from, limit) ==
    LET hits == {i \in from..Min(limit, Len(list)) : list[i].Tmdb # <<>>}
    IN IF hits = {} THEN 0 ELSE CHOOSE i \in hits : \A j \in hits : i <= j

\* lines 257-259: the next episode whose series was not seen yet, 0 when none
NextEpisode(episodes, seen, from) ==
    LET hits == {i \in from..Len(episodes) :
                    /\ episodes[i].SeriesId # ""
                    /\ episodes[i].SeriesId \notin seen}
    IN IF hits = {} THEN 0 ELSE CHOOSE i \in hits : \A j \in hits : i <= j

\* the exclusion set without the loop of lines 278-281
WatchedTmdbIds_movies_only(movies, series) ==
    {ParseInt(movies[i].Tmdb) : i \in {k \in 1..Len(movies) : movies[k].Tmdb # <<>>}}

\* lines 270-281
WatchedTmdbIds(movies, series) ==
    {ParseInt(movies[i].Tmdb) : i \in {k \in 1..Len(movies) : movies[k].Tmdb # <<>>}}
        \cup
    {ParseInt(series[i].Tmdb) : i \in {k \in 1..Len(series) : series[k].Tmdb # <<>>}}

\* where the loops of lines 284 and 300 stand next: the await of the next
\* get_similar, or the sort of line 316
LoopEntry(movies, series, loop, from) ==
    LET m == IF loop = "Movie" THEN NextWithTmdb(movies, from, max_watched_items) ELSE 0
        s == NextWithTmdb(series, IF loop = "Movie" THEN 1 ELSE from, max_watched_items)
    IN IF m # 0 THEN [pc |-> "similar_movie", si |-> m]
       ELSE IF s # 0 THEN [pc |-> "similar_series", si |-> s]
       ELSE [pc |-> "rank", si |-> 0]

\* the acceptance without the test of lines 291 and 307
AcceptSimilar_no_dedup(list, s, library, watched, type, origin) ==
    IF s.id \in DOMAIN library /\ s.id \notin watched
    THEN Append(list, [Id |-> library[s.id].Id, Type |-> type,
                       Score |-> s.vote_average,
                       Tmdb |-> library[s.id].Tmdb, Origin |-> origin])
    ELSE list

\* lines 289-297 and 305-313
AcceptSimilar(list, s, library, watched, type, origin) ==
    IF s.id \in DOMAIN library /\ s.id \notin watched
    THEN LET jellyfin_item == library[s.id]
         IN IF jellyfin_item.Id \notin {list[i].Id : i \in 1..Len(list)}
            THEN Append(list, [Id |-> jellyfin_item.Id, Type |-> type,
                               Score |-> s.vote_average,
                               Tmdb |-> jellyfin_item.Tmdb, Origin |-> origin])
            ELSE list
    ELSE list

\* a descending sort that puts an item before the items of equal score
RECURSIVE SortByScoreDesc_unstable(_)
SortByScoreDesc_unstable(list) ==
    IF list = <<>> THEN <<>>
    ELSE LET sorted == SortByScoreDesc_unstable(SubSeq(list, 1, Len(list) - 1))
             x == list[Len(list)]
             k == Cardinality({i \in 1..Len(sorted) : sorted[i].Score > x.Score})
         IN SubSeq(sorted, 1, k) \o <<x>> \o SubSeq(sorted, k + 1, Len(sorted))

\* line 316: list.sort(key=Score, reverse=True), a stable sort
RECURSIVE SortByScoreDesc(_)
SortByScoreDesc(list) ==
    IF list = <<>> THEN <<>>
    ELSE LET sorted == SortByScoreDesc(SubSeq(list, 1, Len(list) - 1))
             x == list[Len(list)]
             k == Cardinality({i \in 1..Len(sorted) : sorted[i].Score >= x.Score})
         IN SubSeq(sorted, 1, k) \o <<x>> \o SubSeq(sorted, k + 1, Len(sorted))

\* lines 316-317
RankSuggestions(list) == Take(SortByScoreDesc(list), max_playlist_items)

\* lines 339-343: the Id of the first playlist with the configured name, 0: None
NoPlaylist == 0

FindExisting(playlists) ==
    LET hits == {i \in 1..Len(playlists) : playlists[i].Name = playlist_name}
    IN IF hits = {} THEN NoPlaylist
       ELSE playlists[CHOOSE i \in hits : \A j \in hits : i <= j].Id

(***************************************************************************)
(* Steps.                                                                  *)
(***************************************************************************)
Resp == {"ok", "status", "fault"}

NoResponse == [kind |-> "none", results |-> <<>>]

userLocals == <<watched_movies, watched_series, ei, seen_series, unique_series,
                watched_tmdb_ids, suggested_items, si, similar, sj,
                existing_playlist, current_items, item_ids, tmdb_response,
                calls, before_rank, before_sync>>

ResetUserLocals ==
    /\ watched_movies' = <<>>
    /\ watched_series' = <<>>
    /\ ei' = 0
    /\ seen_series' = {}
    /\ unique_series' = <<>>
    /\ watched_tmdb_ids' = {}
    /\ suggested_items' = <<>>
    /\ si' = 0
    /\ similar' = <<>>
    /\ sj' = 0
    /\ existing_playlist' = NoPlaylist
    /\ current_items' = <<>>
    /\ item_ids' = <<>>
    /\ tmdb_response' = NoResponse
    /\ calls' = <<>>
    /\ before_rank' = <<>>
    /\ before_sync' = <<>>

\* a media-server read raises exactly when the session does: the client
\* methods have no try/except and test only resp.status
Raises(kind) == kind = "fault"

\* playlist writes that raise on an unexpected status
WriteRaises_on_status(kind) == kind # "ok"

\* the same for create_playlist, clear_playlist and add_to_playlist: a
\* status they do not expect is logged or returned as False/None, not raised
WriteRaises(kind) == kind = "fault"

\* get_similar without its except clause
SimilarRaises_uncaught(kind) == kind = "fault"

\* lines 195 and 211-213: get_similar catches every exception of its request
SimilarRaises(kind) == FALSE

\* an exception leaving process_user: nothing catches it below main()
Raise(kind) ==
    /\ pc' = "aborted"
    /\ faulted' = (kind = "fault")
    /\ UNCHANGED <<serverVars, runVars, userLocals>>

\* the same for a playlist call, which has been issued all the same
RaiseInSync(call) ==
    /\ pc' = "aborted"
    /\ faulted' = (call.kind = "fault")
    /\ calls' = Append(calls, call)
    /\ UNCHANGED <<runVars, historyVars, aggVars, syncVars,
                   tmdb_response, before_rank, before_sync>>

\* whether the server carries a write out: it does when it acknowledges it,
\* it does not when it answers with another status, and a request whose
\* answer is lost in transport may have been carried out or not
Applied(kind) ==
    IF kind = "ok" THEN {TRUE} ELSE IF kind = "status" THEN {FALSE} ELSE BOOLEAN

\* line 241: the for loop takes the next user, or run() returns
NextUser ==
    /\ ui' = ui + 1
    /\ pc' = IF ui + 1 <= Len(users) THEN "watched_movie" ELSE "done"
    /\ ResetUserLocals
    /\ UNCHANGED <<serverVars, movie_library, series_library, users, faulted>>

\* line 233
FetchMovieLibrary(Listings) ==
    /\ pc = "lib_movie"
    /\ \E kind \in Resp, listing \in Listings :
         IF Raises(kind) THEN Raise(kind)
         ELSE /\ movie_library' = get_library_items(kind, listing)
              /\ pc' = "lib_series"
              /\ UNCHANGED <<serverVars, series_library, users, ui, userLocals, faulted>>

\* line 234
FetchSeriesLibrary(Listings) ==
    /\ pc = "lib_series"
    /\ \E kind \in Resp, listing \in Listings :
         IF Raises(kind) THEN Raise(kind)
         ELSE /\ series_library' = get_library_items(kind, listing)
              /\ pc' = "get_users"
              /\ UNCHANGED <<serverVars, movie_library, users, ui, userLocals, faulted>>

\* lines 238-241
GetUsers(listing) ==
    /\ pc = "get_users"
    /\ \E kind \in Resp :
         IF Raises(kind) THEN Raise(kind)
         ELSE /\ users' = get_users(kind, listing)
              /\ ui' = 1
              /\ pc' = IF users' # <<>> THEN "watched_movie" ELSE "done"
              /\ UNCHANGED <<serverVars, movie_library, series_library, userLocals,
                             faulted>>

\* line 251
GetWatchedMovies(Listings) ==
    /\ pc = "watched_movie"
    /\ \E kind \in Resp, listing \in Listings :
         IF Raises(kind) THEN Raise(kind)
         ELSE /\ watched_movies' = get_watched_items(kind, listing)
              /\ pc' = "watched_episode"
              /\ UNCHANGED <<serverVars, runVars, watched_series, ei, seen_series,
                             unique_series, watched_tmdb_ids, aggVars, syncVars,
                             tmdb_response, calls, before_rank, before_sync, faulted>>

\* the end of the loop of line 257: lines 269-284
StartAggregation(series) ==
    LET entry == LoopEntry(watched_movies', series, "Movie", 1)
    IN /\ watched_tmdb_ids' = WatchedTmdbIds(watched_movies', series)
       /\ suggested_items' = <<>>
       /\ si' = entry.si
       /\ pc' = entry.pc

\* line 252, and the loop of line 257 up to its first get_series_info
GetWatchedEpisodes(Listings) ==
    /\ pc = "watched_episode"
    /\ \E kind \in Resp, listing \in Listings :
         IF Raises(kind) THEN Raise(kind)
         ELSE /\ watched_series' = get_watched_items(kind, listing)
              /\ ei' = NextEpisode(watched_series', {}, 1)
              /\ UNCHANGED <<serverVars, runVars, watched_movies, seen_series,
                             unique_series, similar, sj, syncVars, tmdb_response,
                             calls, before_rank, before_sync, faulted>>
              /\ IF ei' # 0
                 THEN /\ pc' = "series_info"
                      /\ UNCHANGED <<watched_tmdb_ids, suggested_items, si>>
                 ELSE StartAggregation(unique_series)

\* lines 259-264, and the loop on to its next get_series_info
GetSeriesInfo(TmdbChoices) ==
    /\ pc = "series_info"
    /\ LET series_id == watched_series[ei].SeriesId
       IN \E kind \in Resp, tmdb \in TmdbChoices :
            IF Raises(kind) THEN Raise(kind)
            ELSE LET series_info == [Id |-> series_id, Tmdb |-> tmdb]
                     found == IF kind = "ok"
                              THEN Append(unique_series, series_info)
                              ELSE unique_series
                 IN /\ seen_series' = seen_series \cup {series_id}
                    /\ unique_series' = found
                    /\ ei' = NextEpisode(watched_series, seen_series', ei + 1)
                    /\ UNCHANGED <<serverVars, runVars, watched_movies,
                                   watched_series, similar, sj, syncVars,
                                   tmdb_response, calls, before_rank, before_sync,
                                   faulted>>
                    /\ IF ei' # 0
                       THEN /\ pc' = "series_info"
                            /\ UNCHANGED <<watched_tmdb_ids, suggested_items, si>>
                       ELSE StartAggregation(found)

\* the answers the provider may give, for a set of result lists
ProviderAnswers(ResultLists) ==
    {[kind |-> "ok", results |-> r] : r \in ResultLists}
        \cup {[kind |-> k, results |-> <<>>] : k \in {"status", "fault"}}

\* lines 284-288: get_similar for the watched movie si
SimilarMovie(ResultLists) ==
    /\ pc = "similar_movie"
    /\ \E resp \in ProviderAnswers(ResultLists) :
         /\ tmdb_response' = resp
         /\ similar' = get_similar(resp)
         /\ sj' = 1
         /\ pc' = IF SimilarRaises(resp.kind) THEN "aborted" ELSE "accept_movie"
         /\ UNCHANGED <<serverVars, runVars, historyVars, suggested_items, si,
                        syncVars, calls, before_rank, before_sync, faulted>>

\* lines 288-297: one turn of the loop over similar
AcceptMovie ==
    /\ pc = "accept_movie"
    /\ similar # <<>>
    /\ suggested_items' = AcceptSimilar(suggested_items, similar[1], movie_library,
                                        watched_tmdb_ids, "Movie", <<1, si, sj>>)
    /\ similar' = Tail(similar)
    /\ sj' = sj + 1
    /\ UNCHANGED <<serverVars, runVars, historyVars, si, syncVars, pc,
                   tmdb_response, calls, before_rank, before_sync,
                   faulted>>

\* the loop over similar is through: on to the next watched movie
NextMovie ==
    /\ pc = "accept_movie"
    /\ similar = <<>>
    /\ LET entry == LoopEntry(watched_movies, unique_series, "Movie", si + 1)
       IN /\ pc' = entry.pc
          /\ si' = entry.si
    /\ sj' = 0
    /\ tmdb_response' = NoResponse
    /\ UNCHANGED <<serverVars, runVars, historyVars, suggested_items, similar,
                   syncVars, calls, before_rank,
                   before_sync, faulted>>

\* lines 300-304: get_similar for the watched series si
SimilarSeries(ResultLists) ==
    /\ pc = "similar_series"
    /\ \E resp \in ProviderAnswers(ResultLists) :
         /\ tmdb_response' = resp
         /\ similar' = get_similar(resp)
         /\ sj' = 1
         /\ pc' = IF SimilarRaises(resp.kind) THEN "aborted" ELSE "accept_series"
         /\ UNCHANGED <<serverVars, runVars, historyVars, suggested_items, si,
                        syncVars, calls, before_rank, before_sync, faulted>>

\* lines 304-313
AcceptSeries ==
    /\ pc = "accept_series"
    /\ similar # <<>>
    /\ suggested_items' = AcceptSimilar(suggested_items, similar[1], series_library,
                                        watched_tmdb_ids, "Series", <<2, si, sj>>)
    /\ similar' = Tail(similar)
    /\ sj' = sj + 1
    /\ UNCHANGED <<serverVars, runVars, historyVars, si, syncVars, pc,
                   tmdb_response, calls, before_rank, before_sync,
                   faulted>>

NextSeries ==
    /\ pc = "accept_series"
    /\ similar = <<>>
    /\ LET entry == LoopEntry(watched_movies, unique_series, "Series", si + 1)
       IN /\ pc' = entry.pc
          /\ si' = entry.si
    /\ sj' = 0
    /\ tmdb_response' = NoResponse
    /\ UNCHANGED <<serverVars, runVars, historyVars, suggested_items, similar,
                   syncVars, calls, before_rank,
                   before_sync, faulted>>

\* lines 316-317
Rank ==
    /\ pc = "rank"
    /\ before_rank' = suggested_items
    /\ suggested_items' = RankSuggestions(suggested_items)
    /\ pc' = "ranked"
    /\ UNCHANGED <<serverVars, runVars, historyVars, si, similar, sj, syncVars,
                   tmdb_response, calls, before_sync, faulted>>

\* process_user without the test of line 321
ShouldUpdate_always(items) == TRUE

\* line 321: if suggested_items
ShouldUpdate(items) == items # <<>>

\* lines 321-322: update_playlist is entered only with suggestions
Dispatch ==
    /\ pc = "ranked"
    /\ IF ShouldUpdate(suggested_items)
       THEN /\ pc' = "list_playlists"
            /\ before_sync' = server_playlists
            /\ UNCHANGED <<serverVars, runVars, historyVars, aggVars, syncVars,
                           tmdb_response, calls, before_rank, faulted>>
       ELSE NextUser

(***************************************************************************)
(* PlaylistGenerator.update_playlist.  A call record is [op, kind, ids]:   *)
(* the playlist call issued, the answer it got, the item ids it carried.   *)
(***************************************************************************)
Call(op, kind, ids) == [op |-> op, kind |-> kind, ids |-> ids]

\* lines 336-347
ListPlaylists ==
    /\ pc = "list_playlists"
    /\ \E kind \in Resp :
         IF Raises(kind)
         THEN RaiseInSync(Call("list", kind, <<>>)) /\ UNCHANGED serverVars
         ELSE LET playlists == get_user_playlists(kind, server_playlists, users[ui])
              IN /\ existing_playlist' = FindExisting(playlists)
                 /\ item_ids' = [i \in 1..Len(suggested_items) |-> suggested_items[i].Id]
                 /\ pc' = IF existing_playlist' # NoPlaylist
                          THEN "get_entries" ELSE "create"
                 /\ calls' = Append(calls, Call("list", kind, <<>>))
                 /\ UNCHANGED <<serverVars, runVars, historyVars, aggVars,
                                current_items, tmdb_response, before_rank,
                                before_sync, faulted>>

\* lines 352-353
GetPlaylistItems ==
    /\ pc = "get_entries"
    /\ \E kind \in Resp :
         IF Raises(kind)
         THEN RaiseInSync(Call("entries", kind, <<>>)) /\ UNCHANGED serverVars
         ELSE /\ current_items' =
                     get_playlist_items(kind, server_playlists, existing_playlist)
              /\ pc' = IF current_items' # <<>> THEN "clear" ELSE "add"
              /\ calls' = Append(calls, Call("entries", kind, <<>>))
              /\ UNCHANGED <<serverVars, runVars, historyVars, aggVars,
                             existing_playlist, item_ids, tmdb_response,
                             before_rank, before_sync, faulted>>

\* lines 354-355 with clear_playlist, lines 161-168
ClearPlaylist ==
    /\ pc = "clear"
    /\ LET entry_ids == [i \in 1..Len(current_items) |->
                            current_items[i].PlaylistItemId]
       IN IF entry_ids = <<>>
          THEN /\ pc' = "add"
               /\ UNCHANGED <<serverVars, calls, faulted, runVars, historyVars,
                              aggVars, syncVars, tmdb_response, before_rank,
                              before_sync>>
          ELSE \E kind \in Resp :
               \E applied \in Applied(kind) :
                 /\ server_playlists' =
                        IF applied
                        THEN ServerRemoveEntries(server_playlists,
                                 existing_playlist, Join(entry_ids))
                        ELSE server_playlists
                 /\ UNCHANGED next_id
                 /\ IF WriteRaises(kind)
                    THEN RaiseInSync(Call("clear", kind, entry_ids))
                    ELSE /\ pc' = "add"
                         /\ calls' = Append(calls, Call("clear", kind, entry_ids))
                         /\ UNCHANGED <<faulted, runVars, historyVars, aggVars,
                                        syncVars, tmdb_response, before_rank,
                                        before_sync>>

\* line 358 with add_to_playlist, lines 170-177
AddToPlaylist ==
    /\ pc = "add"
    /\ IF item_ids = <<>>
       THEN /\ pc' = "sync_done"
            /\ UNCHANGED <<serverVars, calls, faulted, runVars, historyVars,
                           aggVars, syncVars, tmdb_response, before_rank,
                           before_sync>>
       ELSE \E kind \in Resp :
            \E applied \in Applied(kind) :
              /\ server_playlists' =
                     IF applied
                     THEN ServerAddItems(server_playlists, existing_playlist,
                                         Join(item_ids))
                     ELSE server_playlists
              /\ UNCHANGED next_id
              /\ IF WriteRaises(kind)
                 THEN RaiseInSync(Call("add", kind, item_ids))
                 ELSE /\ pc' = "sync_done"
                      /\ calls' = Append(calls, Call("add", kind, item_ids))
                      /\ UNCHANGED <<faulted, runVars, historyVars, aggVars,
                                     syncVars, tmdb_response, before_rank,
                                     before_sync>>

\* line 361 with create_playlist, lines 135-149
CreatePlaylist ==
    /\ pc = "create"
    /\ \E kind \in Resp :
       \E applied \in Applied(kind) :
         /\ server_playlists' =
                IF applied
                THEN ServerCreatePlaylist(server_playlists, next_id, users[ui],
                                          playlist_name, Join(item_ids))
                ELSE server_playlists
         /\ next_id' = IF applied THEN next_id + 1 ELSE next_id
         /\ IF WriteRaises(kind)
            THEN RaiseInSync(Call("create", kind, item_ids))
            ELSE /\ pc' = "sync_done"
                 /\ calls' = Append(calls, Call("create", kind, item_ids))
                 /\ UNCHANGED <<faulted, runVars, historyVars, aggVars, syncVars,
                                tmdb_response, before_rank, before_sync>>

\* lines 363-367: update_playlist and process_user return to the loop of run()
SyncDone ==
    /\ pc = "sync_done"
    /\ NextUser

(***************************************************************************)
(* The remote state the run is checked against.                            *)
(***************************************************************************)
Item(id, tmdb) == [Id |-> id, Tmdb |-> tmdb]

Result(id, rating, votes) == [id |-> id, vote_average |-> rating, vote_count |-> votes]

Users == <<"u1", "u2">>

OldItems == <<"X", "Y", "Z">>

\* what one user may own at the start: nothing, a suggestions playlist with
\* up to MaxOld entries, or one behind a playlist of another name
OwnedAtStart ==
    {<<>>}
        \cup {<<[Name |-> playlist_name, Items |-> Take(OldItems, k)]>> : k \in 0..MaxOld}
        \cup {<<[Name |-> "Favourites", Items |-> <<"X">>],
                [Name |-> playlist_name, Items |-> Take(OldItems, MaxOld)]>>}

\* the server's playlists for a choice of what u1 and u2 own
PlaylistsAtStart(own1, own2) ==
    LET all == [i \in 1..Len(own1) |-> [o |-> "u1", p |-> own1[i]]]
                   \o [i \in 1..Len(own2) |-> [o |-> "u2", p |-> own2[i]]]
    IN [i \in 1..Len(all) |->
           [Id |-> i, Owner |-> all[i].o, Name |-> all[i].p.Name,
            Entries |-> AppendEntries(<<>>, all[i].p.Items)]]

RunMovieListings == {<<Item("A", <<1>>), Item("B", <<2>>), Item("N", <<>>)>>}

RunSeriesListings == {<<Item("C", <<3>>)>>}

RunWatchedMovies == {<<>>, <<[Tmdb |-> <<9>>]>>}

RunWatchedEpisodes == {<<>>, <<[SeriesId |-> "s1"]>>}

RunSeriesTmdb == {<<7>>}

RunResultLists ==
    {<<>>,
     <<Result(1, 7, 100)>>,
     <<Result(1, 7, 100), Result(2, 8, 100)>>,
     <<Result(3, 8, 100), Result(2, 8, 100)>>}

(***************************************************************************)
(* Spec: a run of the generator, from run()'s first call to its return.    *)
(***************************************************************************)
InitOwning(Owned) ==
    /\ \E own1 \in Owned, own2 \in Owned :
         /\ server_playlists = PlaylistsAtStart(own1, own2)
         /\ next_id = Len(own1) + Len(own2) + 1
    /\ pc = "lib_movie"
    /\ movie_library = EmptyIndex
    /\ series_library = EmptyIndex
    /\ users = <<>>
    /\ ui = 0
    /\ watched_movies = <<>>
    /\ watched_series = <<>>
    /\ ei = 0
    /\ seen_series = {}
    /\ unique_series = <<>>
    /\ watched_tmdb_ids = {}
    /\ suggested_items = <<>>
    /\ si = 0
    /\ similar = <<>>
    /\ sj = 0
    /\ existing_playlist = NoPlaylist
    /\ current_items = <<>>
    /\ item_ids = <<>>
    /\ tmdb_response = NoResponse
    /\ calls = <<>>
    /\ before_rank = <<>>
    /\ before_sync = <<>>
    /\ faulted = FALSE

Init == InitOwning(OwnedAtStart)

Next ==
    \/ FetchMovieLibrary(RunMovieListings)
    \/ FetchSeriesLibrary(RunSeriesListings)
    \/ GetUsers(Users)
    \/ GetWatchedMovies(RunWatchedMovies)
    \/ GetWatchedEpisodes(RunWatchedEpisodes)
    \/ GetSeriesInfo(RunSeriesTmdb)
    \/ SimilarMovie(RunResultLists)
    \/ AcceptMovie
    \/ NextMovie
    \/ SimilarSeries(RunResultLists)
    \/ AcceptSeries
    \/ NextSeries
    \/ Rank
    \/ Dispatch
    \/ ListPlaylists
    \/ GetPlaylistItems
    \/ ClearPlaylist
    \/ AddToPlaylist
    \/ CreatePlaylist
    \/ SyncDone

Spec == Init /\ [][Next]_vars

\* FairSpec: the run under fairness.  Every await ends within the request
\* timeout (ClientTimeout, line 226) and nothing else blocks the run, so a
\* step that can be taken is taken.  Each user starts without a suggestions
\* playlist or with a full one.
InitFair ==
    InitOwning({<<>>, <<[Name |-> playlist_name, Items |-> Take(OldItems, MaxOld)]>>})

FairSpec == InitFair /\ [][Next]_vars /\ WF_vars(Next)

(***************************************************************************)
(* SpecAgg: process_user for one user, from its first call to the ranked   *)
(* list of line 317, over richer answers of the two services.              *)
(***************************************************************************)
\* the movie index has a TMDB id written with a leading zero; the series
\* index shares the local items A and B with it
AggMovieListings ==
    {<<Item("A", <<0, 1>>), Item("B", <<2>>), Item("C", <<3>>), Item("N", <<>>)>>}

AggSeriesListings == {<<Item("D", <<1>>), Item("A", <<2>>), Item("B", <<3>>)>>}

\* the watch-history requests carry limit = max_watched_items (line 91), so
\* the server answers with at most that many items
AggWatchedMovies ==
    SeqsUpTo({[Tmdb |-> t] : t \in {<<>>, <<1>>, <<4>>}}, max_watched_items)

AggWatchedEpisodes ==
    SeqsUpTo({[SeriesId |-> x] : x \in {"", "s1", "s2"}}, max_watched_items)

AggSeriesTmdb == {<<>>, <<2>>, <<4>>}

AggResultLists ==
    SeqsUpTo({Result(1, 8, 100), Result(2, 8, 100), Result(3, 7, 100)},
             max_similar_per_item)

InitAgg ==
    /\ server_playlists = <<>>
    /\ next_id = 1
    /\ pc = "watched_movie"
    /\ \E listing \in AggMovieListings : movie_library = LibraryIndex(listing)
    /\ \E listing \in AggSeriesListings : series_library = LibraryIndex(listing)
    /\ users = <<"u1">>
    /\ ui = 1
    /\ watched_movies = <<>>
    /\ watched_series = <<>>
    /\ ei = 0
    /\ seen_series = {}
    /\ unique_series = <<>>
    /\ watched_tmdb_ids = {}
    /\ suggested_items = <<>>
    /\ si = 0
    /\ similar = <<>>
    /\ sj = 0
    /\ existing_playlist = NoPlaylist
    /\ current_items = <<>>
    /\ item_ids = <<>>
    /\ tmdb_response = NoResponse
    /\ calls = <<>>
    /\ before_rank = <<>>
    /\ before_sync = <<>>
    /\ faulted = FALSE

NextAgg ==
    \/ GetWatchedMovies(AggWatchedMovies)
    \/ GetWatchedEpisodes(AggWatchedEpisodes)
    \/ GetSeriesInfo(AggSeriesTmdb)
    \/ SimilarMovie(AggResultLists)
    \/ AcceptMovie
    \/ NextMovie
    \/ SimilarSeries(AggResultLists)
    \/ AcceptSeries
    \/ NextSeries
    \/ Rank

SpecAgg == InitAgg /\ [][NextAgg]_vars

(***************************************************************************)
(* SpecSimilar: get_similar alone, over every answer of the provider with  *)
(* up to MaxResults results on either side of the two thresholds.          *)
(***************************************************************************)
SimilarResultLists ==
    SeqsUpTo({Result(id, rating, votes) :
                  id \in 1..2,
                  rating \in {min_tmdb_rating - 1, min_tmdb_rating},
                  votes \in {min_tmdb_votes - 1, min_tmdb_votes}},
             MaxResults)

InitSimilar ==
    /\ server_playlists = <<>>
    /\ next_id = 1
    /\ \/ /\ pc = "similar_movie"
          /\ watched_movies = <<[Tmdb |-> <<4>>]>>
          /\ unique_series = <<>>
       \/ /\ pc = "similar_series"
          /\ watched_movies = <<>>
          /\ unique_series = <<Item("s1", <<4>>)>>
    /\ \E listing \in AggMovieListings : movie_library = LibraryIndex(listing)
    /\ \E listing \in AggSeriesListings : series_library = LibraryIndex(listing)
    /\ users = <<"u1">>
    /\ ui = 1
    /\ watched_series = <<>>
    /\ ei = 0
    /\ seen_series = {}
    /\ watched_tmdb_ids = {4}
    /\ suggested_items = <<>>
    /\ si = 1
    /\ similar = <<>>
    /\ sj = 0
    /\ existing_playlist = NoPlaylist
    /\ current_items = <<>>
    /\ item_ids = <<>>
    /\ tmdb_response = NoResponse
    /\ calls = <<>>
    /\ before_rank = <<>>
    /\ before_sync = <<>>
    /\ faulted = FALSE

NextSimilar ==
    \/ SimilarMovie(SimilarResultLists)
    \/ SimilarSeries(SimilarResultLists)

SpecSimilar == InitSimilar /\ [][NextSimilar]_vars

(***************************************************************************)
(* Properties of get_similar (SpecSimilar).                                *)
(***************************************************************************)
\* the provider's answer has just been turned into `similar`
SimilarReturned ==
    /\ pc \in {"accept_movie", "accept_series"}
    /\ sj = 1
    /\ tmdb_response.kind = "ok"

Reported(results) ==
    [i \in 1..Len(results) |->
        [id |-> results[i].id, vote_average |-> results[i].vote_average]]

\* C5 as stated: get_similar filters by rating and votes first and then caps:
\* it returns the first max_similar_per_item of the qualifying results, in
\* provider order.
C5_FilterBeforeCap ==
    SimilarReturned =>
        similar = Take(Reported(SelectSeq(tmdb_response.results, Qualifies)),
                       max_similar_per_item)

\* C5 amended: get_similar caps first and filters then: it returns, in provider
\* order, the qualifying results among the provider's first
\* max_similar_per_item results, and nothing located after that position.
C5_CapBeforeFilter ==
    SimilarReturned =>
        LET head == {i \in 1..Len(tmdb_response.results) :
                         i <= max_similar_per_item}
            kept == {i \in head : Qualifies(tmdb_response.results[i])}
        IN /\ Len(similar) = Cardinality(kept)
           /\ \A n \in 1..Len(similar) :
                \E i \in kept :
                  /\ Cardinality({j \in kept : j <= i}) = n
                  /\ similar[n] = Reported(tmdb_response.results)[i]

\* a qualifying result behind position max_similar_per_item, with fewer than
\* max_similar_per_item qualifying results before it, was not returned
C5_Witness ==
    /\ SimilarReturned
    /\ Len(tmdb_response.results) > max_similar_per_item
    /\ Qualifies(tmdb_response.results[max_similar_per_item + 1])
    /\ Len(similar) < max_similar_per_item
    /\ Len(similar) > 0

(***************************************************************************)
(* Properties of the aggregation (SpecAgg).                                *)
(***************************************************************************)
\* C2: no suggestion has a TMDB id that is the TMDB id of a watched movie or
\* of a resolved watched series of the user, at any point of the aggregation
\* and in the ranked list.
C2_NoWatchedSuggested ==
    \A c \in Range(suggested_items) :
        /\ \A i \in 1..Len(watched_movies) :
             watched_movies[i].Tmdb # <<>> =>
                 ParseInt(c.Tmdb) # ParseInt(watched_movies[i].Tmdb)
        /\ \A i \in 1..Len(unique_series) :
             unique_series[i].Tmdb # <<>> =>
                 ParseInt(c.Tmdb) # ParseInt(unique_series[i].Tmdb)

\* the first similar movie of a watched movie is in the library, is itself a
\* watched title, and was not taken
C2_Witness ==
    /\ pc = "accept_movie"
    /\ sj = 2
    /\ tmdb_response.kind = "ok"
    /\ tmdb_response.results[1].id \in DOMAIN movie_library
    /\ \E i \in 1..Len(watched_movies) :
         /\ watched_movies[i].Tmdb # <<>>
         /\ ParseInt(watched_movies[i].Tmdb) = tmdb_response.results[1].id
    /\ suggested_items = <<>>

\* C3: at every step of the aggregation and in the ranked list, no two
\* candidates have the same server-local item identifier.
C3_NoDuplicateItem ==
    \A i, j \in 1..Len(suggested_items) :
        i # j => suggested_items[i].Id # suggested_items[j].Id

\* a similar series that is in the series index, is not watched, and whose
\* local item is already in the list as a movie has just been looked at
C3_Witness ==
    /\ pc = "accept_series"
    /\ sj >= 2
    /\ tmdb_response.kind = "ok"
    /\ LET id == tmdb_response.results[sj - 1].id
       IN /\ id \in DOMAIN series_library
          /\ id \notin watched_tmdb_ids
          /\ \E c \in Range(suggested_items) :
               c.Type = "Movie" /\ c.Id = series_library[id].Id

LexLess(a, b) ==
    \/ a[1] < b[1]
    \/ a[1] = b[1] /\ a[2] < b[2]
    \/ a[1] = b[1] /\ a[2] = b[2] /\ a[3] < b[3]

InsertionOrdered(list) ==
    \A i, j \in 1..Len(list) : i < j => LexLess(list[i].Origin, list[j].Origin)

RanksBefore(x, y) ==
    \/ x.Score > y.Score
    \/ x.Score = y.Score /\ LexLess(x.Origin, y.Origin)

\* C4: the working list is in insertion order (movies before series, then
\* the watched item's position, then the provider's order); the ranked list
\* is ordered by score descending with ties in insertion order, and it is
\* the first max_playlist_items candidates of that ordering.
C4_RankedStable ==
    /\ pc # "ranked" => InsertionOrdered(suggested_items)
    /\ pc = "ranked" =>
         /\ InsertionOrdered(before_rank)
         /\ Range(suggested_items) \subseteq Range(before_rank)
         /\ Len(suggested_items) = Min(Len(before_rank), max_playlist_items)
         /\ \A i, j \in 1..Len(suggested_items) :
              i < j => RanksBefore(suggested_items[i], suggested_items[j])
         /\ \A x \in Range(before_rank) \ Range(suggested_items) :
              \A y \in Range(suggested_items) : RanksBefore(y, x)

\* more candidates than the playlist takes, movies and series among them, a
\* tie at the top of the ranked list and a list the sort had to reorder
C4_Witness ==
    /\ pc = "ranked"
    /\ Len(before_rank) > max_playlist_items
    /\ suggested_items[1].Score = suggested_items[2].Score
    /\ before_rank[1].Score < suggested_items[1].Score
    /\ \E c \in Range(before_rank) : c.Type = "Movie"
    /\ \E c \in Range(before_rank) : c.Type = "Series"
    /\ \E x \in Range(before_rank) \ Range(suggested_items) :
         x.Score = suggested_items[2].Score

AtSimilarCall == pc \in {"similar_movie", "similar_series"}

\* C8: a similarity call that fails (status or fault) leaves the run where a
\* successful call with no results leaves it: nothing is raised, the working
\* list and the watch history are as before, and the loop goes on with the
\* next watched item.
C8_FailedCallIsEmptyResult ==
    [][(AtSimilarCall /\ tmdb_response'.kind \in {"status", "fault"}) =>
          /\ pc' = IF pc = "similar_movie" THEN "accept_movie" ELSE "accept_series"
          /\ similar' = <<>>
          /\ ~faulted'
          /\ suggested_items' = suggested_items
          /\ <<watched_movies, unique_series, watched_tmdb_ids, si>>' =
                 <<watched_movies, unique_series, watched_tmdb_ids, si>>]_vars

\* the similarity call of the second watched movie has just raised in
\* transport: the candidates of the first are kept and a watched series is
\* still to be asked about
C8_Witness ==
    /\ pc = "accept_movie"
    /\ si = 2
    /\ tmdb_response.kind = "fault"
    /\ similar = <<>>
    /\ suggested_items # <<>>
    /\ NextWithTmdb(unique_series, 1, max_watched_items) # 0

(***************************************************************************)
(* Properties of the run and of the synchronizer (Spec, FairSpec).         *)
(***************************************************************************)
SyncPcs == {"list_playlists", "get_entries", "clear", "add", "create"}

\* the user's playlists with the configured name, in listing order
Named(pls, user_id) ==
    SelectSeq(pls, LAMBDA p : p.Owner = user_id /\ p.Name = playlist_name)

EntryItems(p) == [i \in 1..Len(p.Entries) |-> p.Entries[i].Id]

RankedIds == [i \in 1..Len(suggested_items) |-> suggested_items[i].Id]

AllAnsweredOk == \A i \in 1..Len(calls) : calls[i].kind = "ok"

\* C1: when every playlist call was answered with success, update_playlist
\* returns with the user's playlist of the configured name holding exactly
\* the ranked item ids in rank order: the existing one, its old entries gone
\* and no playlist added, or else a newly created one.
C1_ExactPlaylist ==
    (pc = "sync_done" /\ AllAnsweredOk) =>
        LET was == Named(before_sync, users[ui])
            now == Named(server_playlists, users[ui])
        IN /\ suggested_items # <<>>
           /\ now # <<>>
           /\ EntryItems(now[1]) = RankedIds
           /\ was # <<>> =>
                /\ now[1].Id = was[1].Id
                /\ Len(server_playlists) = Len(before_sync)
           /\ was = <<>> =>
                /\ Len(now) = 1
                /\ Len(server_playlists) = Len(before_sync) + 1

\* a playlist with at least two old entries has been given two new items
C1_Witness ==
    /\ pc = "sync_done"
    /\ AllAnsweredOk
    /\ Named(before_sync, users[ui]) # <<>>
    /\ Len(Named(before_sync, users[ui])[1].Entries) >= 2
    /\ Len(suggested_items) = 2
    /\ EntryItems(Named(server_playlists, users[ui])[1]) = RankedIds

\* C6: each user owns at most one playlist with the configured name, in
\* every state of a run that began in such a state, whatever the server
\* answers.
C6_AtMostOneNamed ==
    \A u \in Range(Users) : Len(Named(server_playlists, u)) <= 1

WriteRejected ==
    \E i \in 1..Len(calls) :
        calls[i].op \in {"create", "clear", "add"} /\ calls[i].kind = "status"

\* C7: a playlist create, clear or append answered with an unexpected status
\* raises nothing: update_playlist returns, and the run goes through the
\* remaining users in listing order to its end, unless a later call of the
\* media server fails in transport.
C7_RunGoesOn ==
    /\ [](pc = "aborted" => faulted)
    /\ [][ui' # ui => ui' = ui + 1]_vars
    /\ [](WriteRejected => <>(pc = "sync_done" \/ faulted))
    /\ [](WriteRejected => <>(pc = "done" \/ faulted))

\* update_playlist has returned from a rejected write, users are left
C7_Witness ==
    /\ pc = "sync_done"
    /\ WriteRejected
    /\ ui < Len(users)

\* C9: a playlist call is issued, and the server's playlists change, only
\* inside update_playlist for a non-empty ranked list; a user whose ranked
\* list is empty is left without any playlist call and with the playlists
\* as they were, and the run takes the next user.
C9_NoCallWithoutSuggestions ==
    [][/\ (Len(calls') > Len(calls) \/ server_playlists' # server_playlists) =>
             (suggested_items # <<>> /\ pc \in SyncPcs)
       /\ (pc = "ranked" /\ suggested_items = <<>>) =>
             /\ calls = <<>>
             /\ calls' = <<>>
             /\ server_playlists' = server_playlists
             /\ pc' \in {"watched_movie", "done"}]_vars

\* a user with an empty watch history who owns a suggestions playlist
C9_Witness ==
    /\ pc = "ranked"
    /\ suggested_items = <<>>
    /\ watched_movies = <<>>
    /\ unique_series = <<>>
    /\ calls = <<>>
    /\ Named(server_playlists, users[ui]) # <<>>
    /\ Named(server_playlists, users[ui])[1].Entries # <<>>

Mutating == SelectSeq(calls, LAMBDA c : c.op \in {"create", "clear", "add"})

\* what update_playlist has done once it has returned, for a playlist that
\* was there: [clear,] add, the add carrying the ranked ids, and, the add
\* acknowledged, the entries ending with the ranked ids behind whatever old
\* entries no clear removed
ClearThenAdd ==
    LET ops == [i \in 1..Len(Mutating) |-> Mutating[i].op]
        old == EntryItems(Named(before_sync, users[ui])[1])
        now == EntryItems(Named(server_playlists, users[ui])[1])
        cleared == \E i \in 1..Len(calls) :
                       calls[i].op = "clear" /\ calls[i].kind = "ok"
    IN /\ ops \in {<<"add">>, <<"clear", "add">>}
       /\ ("clear" \in Range(ops)) = (current_items # <<>>)
       /\ Mutating[Len(Mutating)].ids = RankedIds
       /\ Mutating[Len(Mutating)].kind = "ok" =>
            now = (IF cleared THEN <<>> ELSE old) \o RankedIds

\* C10: in update_playlist for a user who has a playlist with the configured
\* name, create_playlist is never issued, and the mutating calls are at most
\* one clear (when the fetched entries are non-empty) and then one add with
\* the full ranked list, after which, if acknowledged, the entries end with
\* the ranked list.
C10_ClearThenAdd ==
    (pc \in SyncPcs \cup {"sync_done"} /\ Named(before_sync, users[ui]) # <<>>) =>
        /\ \A i \in 1..Len(calls) : calls[i].op # "create"
        /\ pc = "sync_done" => ClearThenAdd

\* the same where the listing has found the playlist (holds)
ExistingClearThenAdd ==
    (pc \in SyncPcs \cup {"sync_done"} /\ existing_playlist # NoPlaylist) =>
        /\ Named(before_sync, users[ui]) # <<>>
        /\ \A i \in 1..Len(calls) : calls[i].op # "create"
        /\ pc # "create"
        /\ pc = "sync_done" => ClearThenAdd

====
